---- MODULE Spec2Model ----
(***************************************************************************)
(* State-machine model of the real-time monitoring engine                  *)
(* (utils/realtimeMonitoring.ts): monitorRealTime, acknowledgeAlert and    *)
(* the pure rule functions they call.                                      *)
(*                                                                         *)
(* Conventions of the model:                                               *)
(*  - time is counted in whole minutes since the epoch (the code works in  *)
(*    milliseconds; every constant of the code is a whole number of        *)
(*    minutes), a calendar day is 1440 minutes;                            *)
(*  - levels are integers; every derived quantity the code computes by a   *)
(*    division (slopes, fill rates, expected volumes, refill rates,        *)
(*    forecasts) is an exact rational <<numerator, denominator>> in        *)
(*    lowest terms with a positive denominator;                            *)
(*  - a Map is a function whose DOMAIN is the set of its keys, a Set is a  *)
(*    set, an array is a sequence;                                         *)
(*  - DrainEvent objects live in a heap (a sequence indexed by reference), *)
(*    because the code shares them between the prior and the new state;    *)
(*  - an optional value (Date | null, string | null) is <<>> when absent   *)
(*    and <<v>> when present.                                              *)
(***************************************************************************)
EXTENDS Integers, Sequences, FiniteSets, TLC

VARIABLES
    now,          \* timestamp of the latest tick (minutes)
    telemetry,    \* historicalData: the samples received so far, ascending
    tickets,      \* transport tickets handed to every tick
    state,        \* the MonitoringState held by the caller
    heap,         \* the DrainEvent objects, indexed by reference
    alerts,       \* the alert list returned by the latest monitorRealTime call
    priorState,   \* the state object that was passed to the latest call
    priorHeap,    \* the DrainEvent objects as they were before the latest call
    log,          \* observations of the run (what happened, and when)
    probe,        \* the arguments of a direct call of one of the rule functions
    answer,       \* <<>> before that call, <<its result>> after it
    realtimeAlerts,  \* the alert history of the dashboard (followed in SpecHistory)
    prevAlerts       \* the alert history as it was before the latest merge

vars == <<now, telemetry, tickets, state, heap, alerts, priorState, priorHeap, log,
          probe, answer, realtimeAlerts, prevAlerts>>

----------------------------------------------------------------------------
(* Bounds of the model *)

MaxTicks == 3          \* ticks of a run with re-runs and acknowledgements (Spec)
MaxRun == 5            \* ticks of a run of ticks alone (SpecRun)
MaxAck == 1            \* number of acknowledged alert ids
MaxFine == 4           \* ticks of a run with finely graded levels (SpecFine)
MaxProbeSamples == 5   \* samples handed to a direct call of calculateFillRate
MaxProbeTickets == 3   \* tickets handed to a direct call of matchTicketToDrain
MaxSupply == 3         \* ticks of a run with missing inputs (SpecSupply)
MaxLive == 6           \* ticks of a fair run (SpecLive)
MaxLoaded == 4         \* samples of a data set loaded before playback (SpecPlayback)
MaxShown == 2          \* ticks of a run that follows the alert history (SpecHistory)

StartTime == 10 * 60   \* first tick: 10:00 of day 0
LateStart == 23 * 60 + 50   \* or the run starts late in the evening of day 0
\* minutes between two consecutive ticks: 1, 5, or 4 days
Steps == {1, 5, 4 * 1440}
Levels == {0, 35, 90}   \* levels a sample can report for a valid vessel
\* a finer grading of levels and steps: 35 -> 30 is a drop of exactly 5% of 100
FineSteps == {1, 5}
FineLevels == {0, 30, 35, 90}

----------------------------------------------------------------------------
(* Program constants *)

TOLERANCE == 2
DRAIN_STABILIZATION_TIME == 5
PRODUCTION_STOP_DURATION == 30
MINUTES_PER_DAY == 1440
TWO_HOURS == 120
HISTORY_LIMIT == 50
LOOKBACK_MINUTES == 60

\* PRODUCTION_STOP_THRESHOLD = 0.1 as a rational
PRODUCTION_STOP_THRESHOLD == <<1, 10>>

----------------------------------------------------------------------------
(* Generic helpers: optional values, maps, rationals *)

None == <<>>
Some(v) == <<v>>

Has(m, k) == k \in DOMAIN m
Put(m, k, v) == [x \in (DOMAIN m) \cup {k} |-> IF x = k THEN v ELSE m[x]]
Delete(m, k) == [x \in (DOMAIN m) \ {k} |-> m[x]]
EmptyMap == [x \in {} |-> 0]

Abs(x) == IF x < 0 THEN -x ELSE x

RECURSIVE GCD(_, _)
GCD(a, b) == IF b = 0 THEN a ELSE GCD(b, a % b)

\* the rational n/d (d # 0) in lowest terms
Rat(n, d) ==
    LET s == IF d < 0 THEN -1 ELSE 1
        g == GCD(Abs(n), Abs(d))
    IN  <<(s * n) \div g, (s * d) \div g>>

RInt(k) == <<k, 1>>
RZero == <<0, 1>>
RAdd(a, b) == Rat(a[1] * b[2] + b[1] * a[2], a[2] * b[2])
RSub(a, b) == Rat(a[1] * b[2] - b[1] * a[2], a[2] * b[2])
RMul(a, b) == Rat(a[1] * b[1], a[2] * b[2])
RDiv(a, b) == Rat(a[1] * b[2], a[2] * b[1])
RLt(a, b) == a[1] * b[2] < b[1] * a[2]
RLe(a, b) == a[1] * b[2] <= b[1] * a[2]
RAbs(a) == <<Abs(a[1]), a[2]>>

\* the UTC calendar day of a timestamp: toISOString().split('T')[0]
DateKey(t) == t \div MINUTES_PER_DAY

----------------------------------------------------------------------------
(* Reference data handed to every tick *)

\* cauldron id -> key of its level in a telemetry sample:
\* `cauldron_${id.split('_').pop().padStart(3, '0')}`
LevelKey(id) ==
    CASE id = "cauldron_001" -> "cauldron_001"
      [] id = "cauldron_2" -> "cauldron_002"
      [] id = "cauldron_3" -> "cauldron_003"
      [] OTHER -> "cauldron_001"

Cauldrons == <<
    [id |-> Some("cauldron_001"), name |-> "Alpha", max_volume |-> 100],
    [id |-> Some("cauldron_2"), name |-> "Broken", max_volume |-> 0],
    [id |-> Some("cauldron_3"), name |-> "Inverted", max_volume |-> -100],
    [id |-> None, name |-> "Nameless", max_volume |-> 100] >>

Couriers == << [courier_id |-> Some("courier_1")] >>

Network == Some([edges |-> Some(<<
    [from |-> Some("cauldron_001"), to |-> Some("market"), travel_time_minutes |-> 10],
    [from |-> Some("cauldron_2"), to |-> Some("market"), travel_time_minutes |-> 10] >>)])

T1 == [ticket_id |-> "T1", cauldron_id |-> Some("cauldron_001"),
       amount_collected |-> 50, courier_id |-> Some("courier_1"), date |-> Some(600)]
T2 == [ticket_id |-> "T2", cauldron_id |-> Some("cauldron_001"),
       amount_collected |-> 10, courier_id |-> Some("courier_1"), date |-> None]

T3 == [ticket_id |-> "T3", cauldron_id |-> Some("cauldron_2"),
       amount_collected |-> 20, courier_id |-> Some("courier_1"), date |-> Some(600)]

TicketLists == { <<T1, T2, T3>> }

LevelKeys == {"cauldron_001", "cauldron_002"}

\* the samples a data source can deliver at time t, with a level out of levels
SamplesOf(t, levels) ==
    { [timestamp |-> t,
       cauldron_levels |-> [k \in LevelKeys |-> IF k = "cauldron_001" THEN l ELSE 0]]
      : l \in levels }

Samples(t) == SamplesOf(t, Levels)

----------------------------------------------------------------------------
(* 1. Core metrics *)

\* (levels as any)[key] || 0
LevelOf(sample, key) ==
    IF key \in DOMAIN sample.cauldron_levels THEN sample.cauldron_levels[key] ELSE 0

RECURSIVE InsertSorted(_, _)
InsertSorted(s, x) ==
    IF s = <<>> THEN <<x>>
    ELSE IF RLt(x, s[1]) THEN <<x>> \o s
    ELSE <<s[1]>> \o InsertSorted(Tail(s), x)

\* positiveSlopes.sort((a, b) => a - b)
RECURSIVE SortSlopes(_)
SortSlopes(s) ==
    IF s = <<>> THEN <<>> ELSE InsertSorted(SortSlopes(Tail(s)), s[1])

\* the loop of calculateFillRate over the pairs (i-1, i), i = from..Len
RECURSIVE PositiveSlopes(_, _, _, _)
PositiveSlopes(historicalData, cauldronKey, cutoffTime, i) ==
    IF i > Len(historicalData) THEN <<>>
    ELSE LET prevData == historicalData[i - 1]
             currData == historicalData[i]
             dataTime == currData.timestamp
             prevLevel == LevelOf(prevData, cauldronKey)
             currLevel == LevelOf(currData, cauldronKey)
             timeDiff == dataTime - prevData.timestamp
             rest == PositiveSlopes(historicalData, cauldronKey, cutoffTime, i + 1)
         IN  IF dataTime < cutoffTime THEN rest
             ELSE IF timeDiff > 0 /\ currLevel > prevLevel
                  THEN <<Rat(currLevel - prevLevel, timeDiff)>> \o rest
                  ELSE rest

RECURSIVE SumOfSlopes(_)
SumOfSlopes(slopes) ==
    IF slopes = <<>> THEN RZero ELSE RAdd(slopes[1], SumOfSlopes(Tail(slopes)))

\* a variant that averages the slopes
MedianOfSorted_Mean(sorted) == RDiv(SumOfSlopes(sorted), RInt(Len(sorted)))

\* the median of a sorted, non-empty list of slopes
MedianOfSorted(sorted) ==
    LET mid == Len(sorted) \div 2
    IN  IF Len(sorted) % 2 = 0
        THEN RDiv(RAdd(sorted[mid], sorted[mid + 1]), RInt(2))
        ELSE sorted[mid + 1]

calculateFillRate(cauldronId, historicalData, lookbackMinutes) ==
    IF Len(historicalData) < 2 THEN RZero
    ELSE LET cauldronKey == LevelKey(cauldronId)
             currentTime == historicalData[Len(historicalData)].timestamp
             cutoffTime == currentTime - lookbackMinutes
             positiveSlopes == PositiveSlopes(historicalData, cauldronKey, cutoffTime, 2)
         IN  IF Len(positiveSlopes) = 0 THEN RZero
             ELSE MedianOfSorted(SortSlopes(positiveSlopes))

\* a variant that forgets the volume filled in during the drain
calculateExpectedDrainVolume_DropOnly(levelBefore, levelAfter, fillRate, durationMinutes) ==
    RInt(levelBefore - levelAfter)

calculateExpectedDrainVolume(levelBefore, levelAfter, fillRate, durationMinutes) ==
    LET levelDrop == levelBefore - levelAfter
        fillDuringDrain == RMul(fillRate, RInt(durationMinutes))
    IN  RAdd(RInt(levelDrop), fillDuringDrain)

----------------------------------------------------------------------------
(* Rule A: drain detection, ticket matching, discrepancy rules *)

\* a variant whose threshold is inclusive
detectDrainStart_AtLeast(cauldron, previousLevel, currentLevel) ==
    IF cauldron.id = None \/ cauldron.max_volume = 0 THEN FALSE
    ELSE LET drop == previousLevel - currentLevel
         IN  100 * drop >= 5 * cauldron.max_volume /\ drop > 0

\* drop > 0.05 * max_volume  <=>  100 * drop > 5 * max_volume
detectDrainStart(cauldron, previousLevel, currentLevel) ==
    IF cauldron.id = None \/ cauldron.max_volume = 0 THEN FALSE
    ELSE LET drop == previousLevel - currentLevel
         IN  100 * drop > 5 * cauldron.max_volume /\ drop > 0

\* the filter predicate of matchTicketToDrain
EligibleTicket(drainEvent, t) ==
    /\ t.date # None
    /\ t.cauldron_id = Some(drainEvent.cauldronId)
    /\ DateKey(t.date[1]) = DateKey(drainEvent.timestamp)
    /\ Abs(t.date[1] - drainEvent.timestamp) <= TWO_HOURS

\* a variant whose sort puts the later of two equally distant tickets first
matchTicketToDrain_LatestOnTie(drainEvent, tks) ==
    LET matching == { i \in 1..Len(tks) : EligibleTicket(drainEvent, tks[i]) }
        dist(i) == Abs(tks[i].date[1] - drainEvent.timestamp)
    IN  IF matching = {} THEN None
        ELSE LET best == CHOOSE i \in matching :
                            \A j \in matching : dist(i) < dist(j) \/ (dist(i) = dist(j) /\ i >= j)
             IN  Some(tks[best])

\* filter, stable sort by distance in time, first element
matchTicketToDrain(drainEvent, tks) ==
    LET matching == { i \in 1..Len(tks) : EligibleTicket(drainEvent, tks[i]) }
        dist(i) == Abs(tks[i].date[1] - drainEvent.timestamp)
    IN  IF matching = {} THEN None
        ELSE LET best == CHOOSE i \in matching :
                            \A j \in matching : dist(i) < dist(j) \/ (dist(i) = dist(j) /\ i <= j)
             IN  Some(tks[best])

\* a variant that reports nothing for a drain without a ticket
assessDiscrepancy_TicketsOnly(drainEvent, ticket, tolerance) ==
    IF ticket = None THEN None
    ELSE LET diff == RSub(RInt(ticket[1].amount_collected), drainEvent.expectedDrainVolume)
         IN  IF RLt(RInt(tolerance), diff)
             THEN Some([type |-> "overreporting", severity |-> "warning"])
             ELSE IF RLt(diff, RInt(-tolerance))
             THEN Some([type |-> "unlogged_drain", severity |-> "critical"])
             ELSE None

\* a variant whose tolerance band is open: a difference equal to the
\* tolerance is a discrepancy
assessDiscrepancy_Inclusive(drainEvent, ticket, tolerance) ==
    IF ticket = None
    THEN Some([type |-> "unlogged_event", severity |-> "critical"])
    ELSE LET diff == RSub(RInt(ticket[1].amount_collected), drainEvent.expectedDrainVolume)
         IN  IF RLe(RInt(tolerance), diff)
             THEN Some([type |-> "overreporting", severity |-> "warning"])
             ELSE IF RLe(diff, RInt(-tolerance))
             THEN Some([type |-> "unlogged_drain", severity |-> "critical"])
             ELSE None

assessDiscrepancy(drainEvent, ticket, tolerance) ==
    LET expected == drainEvent.expectedDrainVolume
    IN  IF ticket = None
        THEN Some([type |-> "unlogged_event", severity |-> "critical"])
        ELSE LET reported == ticket[1].amount_collected
                 diff == RSub(RInt(reported), expected)
             IN  IF RLt(RInt(tolerance), diff)
                 THEN Some([type |-> "overreporting", severity |-> "warning"])
                 ELSE IF RLt(diff, RInt(-tolerance))
                 THEN Some([type |-> "unlogged_drain", severity |-> "critical"])
                 ELSE None

\* Case C: recentDrains is a sequence of DrainEvent values
checkFalseTicket(cauldronId, ticket, recentDrains) ==
    LET ticketTime == ticket.date[1]
        hasMatchingDrain ==
            \E i \in 1..Len(recentDrains) :
                /\ DateKey(recentDrains[i].timestamp) = DateKey(ticketTime)
                /\ Abs(ticketTime - recentDrains[i].timestamp) <= TWO_HOURS
    IN  ~hasMatchingDrain

\* Case E: !refillRate is true for an absent and for a zero refill rate
detectCloggedFlow(drainEvent, baselineFillRate) ==
    IF drainEvent.refillRate = None \/ drainEvent.refillRate[1] = RZero
       \/ baselineFillRate = RZero
    THEN FALSE
    ELSE RLt(drainEvent.refillRate[1], RMul(<<1, 2>>, baselineFillRate))

\* Case G
detectProductionStop(cauldronId, currentLevel, previousLevel, timeDiff, fillRate, lastStableTime, currentTimestamp) ==
    LET levelChange == currentLevel - previousLevel
        currentRate == IF timeDiff > 0 THEN Rat(levelChange, timeDiff) ELSE RZero
    IN  IF RLt(currentRate, PRODUCTION_STOP_THRESHOLD) /\ RLt(RZero, fillRate)
        THEN LET stableTime == IF lastStableTime = None THEN currentTimestamp
                               ELSE lastStableTime[1]
                 duration == currentTimestamp - stableTime
             IN  [isStopped |-> duration > PRODUCTION_STOP_DURATION, duration |-> duration]
        ELSE [isStopped |-> FALSE, duration |-> 0]

\* Case H: percent = |e - t| / e * 100 > threshold
checkDailyDiscrepancy(totalExpected, totalTicketed, threshold) ==
    IF totalExpected = RZero THEN FALSE
    ELSE RLt(RInt(threshold),
             RMul(RDiv(RAbs(RSub(totalExpected, totalTicketed)), totalExpected), RInt(100)))

\* 4. Delivery integrity: None, or Some(isDelayed)
checkDeliveryDelay(courier, ticket, network, currentTimestamp) ==
    IF network = None \/ network[1].edges = None \/ ticket.date = None
       \/ ticket.cauldron_id = None
    THEN None
    ELSE LET edges == network[1].edges[1]
             timeSinceTicket == currentTimestamp - ticket.date[1]
             found == { i \in 1..Len(edges) : edges[i].from = ticket.cauldron_id }
         IN  IF found = {} THEN None
             ELSE LET edge == edges[CHOOSE i \in found : \A j \in found : i <= j]
                  IN  IF edge.travel_time_minutes = 0 THEN None
                      \* timeSinceTicket > 1.3 * expectedTravelTime
                      ELSE Some(10 * timeSinceTicket > 13 * edge.travel_time_minutes)

----------------------------------------------------------------------------
(* monitorRealTime, step by step.  The accumulator acc of a call holds      *)
(* us (updatedState), hp (the heap of DrainEvent objects), alerts and lg    *)
(* (the observations); ctx holds the values fixed for one cauldron.         *)

AlertId(type, key, currentTime) == type \o "-" \o key \o "-" \o ToString(currentTime)

MkAlert(id, type, severity, cauldronId, currentTime, details) ==
    [id |-> id, type |-> type, severity |-> severity, cauldronId |-> cauldronId,
     timestamp |-> currentTime, details |-> details]

\* the sample nearest to currentTime; the first one among equally near samples
NearestSample(historicalData, currentTime) ==
    IF Len(historicalData) = 0 THEN None
    ELSE LET diff(i) == Abs(historicalData[i].timestamp - currentTime)
             best == CHOOSE i \in 1..Len(historicalData) :
                        \A j \in 1..Len(historicalData) :
                            diff(i) < diff(j) \/ (diff(i) = diff(j) /\ i <= j)
         IN  Some(historicalData[best])

\* a variant that stores every positive estimate as the baseline
FillRateStep_Overwrite(acc, ctx) ==
    [acc EXCEPT !.us = [@ EXCEPT
        !.baselineFillRates = IF RLt(RZero, ctx.fillRate) THEN Put(@, ctx.id, ctx.fillRate)
                              ELSE @,
        !.fillRates = Put(@, ctx.id, ctx.fillRate)]]

\* lines 386-392: baseline (set once, from a positive estimate) and fill rate
FillRateStep(acc, ctx) ==
    LET us == acc.us
        setBaseline == ~Has(us.baselineFillRates, ctx.id) /\ RLt(RZero, ctx.fillRate)
    IN  [acc EXCEPT !.us = [us EXCEPT
            !.baselineFillRates = IF setBaseline THEN Put(@, ctx.id, ctx.fillRate) ELSE @,
            !.fillRates = Put(@, ctx.id, ctx.fillRate)]]

\* a variant that assigns the event list instead of pushing to it
StartDrain_Replace(acc, ctx) ==
    LET timeDiff == 1
        newDrain == [cauldronId |-> ctx.id,
                     timestamp |-> ctx.currentTime,
                     levelBefore |-> ctx.previousLevel,
                     levelAfter |-> ctx.currentLevel,
                     expectedDrainVolume |->
                         calculateExpectedDrainVolume(ctx.previousLevel, ctx.currentLevel,
                                                      ctx.fillRate, timeDiff),
                     duration |-> timeDiff,
                     refillRate |-> None,
                     isActive |-> TRUE]
        ref == Len(acc.hp) + 1
    IN  [acc EXCEPT
            !.hp = Append(@, newDrain),
            !.us = [@ EXCEPT !.activeDrains = Put(@, ctx.id, ref),
                             !.drainEvents = <<ref>>],
            !.lg = [@ EXCEPT !.lastDrop = Put(@, ref, ctx.currentTime),
                             !.dropRate = Put(@, ref, ctx.fillRate),
                             !.dropTicks = Put(@, ref, 1)]]

\* lines 400-412: a new drain starts
StartDrain(acc, ctx) ==
    LET timeDiff == 1
        newDrain == [cauldronId |-> ctx.id,
                     timestamp |-> ctx.currentTime,
                     levelBefore |-> ctx.previousLevel,
                     levelAfter |-> ctx.currentLevel,
                     expectedDrainVolume |->
                         calculateExpectedDrainVolume(ctx.previousLevel, ctx.currentLevel,
                                                      ctx.fillRate, timeDiff),
                     duration |-> timeDiff,
                     refillRate |-> None,
                     isActive |-> TRUE]
        ref == Len(acc.hp) + 1
    IN  [acc EXCEPT
            !.hp = Append(@, newDrain),
            !.us = [@ EXCEPT !.activeDrains = Put(@, ctx.id, ref),
                             !.drainEvents = Append(@, ref)],
            !.lg = [@ EXCEPT !.lastDrop = Put(@, ref, ctx.currentTime),
                             !.dropRate = Put(@, ref, ctx.fillRate),
                             !.dropTicks = Put(@, ref, 1)]]

\* lines 413-423: the active drain object is updated in place
ExtendDrain(acc, ctx, ref) ==
    LET timeDiff == 1
        old == acc.hp[ref]
        duration == old.duration + timeDiff
        upd == [old EXCEPT
                  !.levelAfter = ctx.currentLevel,
                  !.duration = duration,
                  !.expectedDrainVolume =
                      calculateExpectedDrainVolume(old.levelBefore, ctx.currentLevel,
                                                   ctx.fillRate, duration)]
    IN  [acc EXCEPT
            !.hp = [@ EXCEPT ![ref] = upd],
            !.lg = [@ EXCEPT !.lastDrop = Put(@, ref, ctx.currentTime),
                             !.dropRate = Put(@, ref, ctx.fillRate),
                             !.dropTicks = Put(@, ref, @[ref] + 1)]]

\* a variant for which no time ever passes since the drop
TimeSinceLastDrop_Stuck(drainEvent, currentTime) == 0

\* line 426: minutes since the timestamp of the active drain
TimeSinceLastDrop(drainEvent, currentTime) == currentTime - drainEvent.timestamp

\* lines 440-480: the discrepancy alert, the counter and the drift alert
DiscrepancyStep(acc, ctx, discrepancy) ==
    IF discrepancy = None THEN acc
    ELSE LET d == discrepancy[1]
             count == IF Has(acc.us.discrepancyCounts, ctx.id)
                      THEN acc.us.discrepancyCounts[ctx.id] ELSE 0
             a1 == MkAlert(AlertId(d.type, ctx.id, ctx.currentTime), d.type, d.severity,
                           Some(ctx.id), ctx.currentTime, [x \in {} |-> 0])
             a2 == MkAlert(AlertId("drift", ctx.id, ctx.currentTime), "drift", "critical",
                           Some(ctx.id), ctx.currentTime, [discrepancyCount |-> count + 1])
             seen == IF Has(acc.lg.discrepancyTimes, ctx.id)
                     THEN acc.lg.discrepancyTimes[ctx.id] ELSE {}
         IN  [acc EXCEPT
                !.us = [@ EXCEPT !.discrepancyCounts = Put(@, ctx.id, count + 1)],
                !.alerts = IF count + 1 >= 2 THEN @ \o <<a1, a2>> ELSE Append(@, a1),
                !.lg = [@ EXCEPT !.discrepancyTimes =
                                     Put(@, ctx.id, seen \cup {ctx.currentTime})]]

\* lines 482-499
CloggedFlowStep(acc, ctx, ref) ==
    IF detectCloggedFlow(acc.hp[ref], ctx.baselineFillRate)
    THEN [acc EXCEPT !.alerts = Append(@,
             MkAlert(AlertId("clogged-flow", ctx.id, ctx.currentTime), "clogged_flow",
                     "warning", Some(ctx.id), ctx.currentTime,
                     [refillRate |-> acc.hp[ref].refillRate[1],
                      baselineFillRate |-> ctx.baselineFillRate]))]
    ELSE acc

\* lines 501-516: daily totals and the matched tickets of the day
DailyStep(acc, ctx, ref, matchedTicket) ==
    LET us == acc.us
        dailyDrainsMap == IF Has(us.dailyDrains, ctx.id) THEN us.dailyDrains[ctx.id]
                          ELSE EmptyMap
        currentDailyTotal == IF Has(dailyDrainsMap, ctx.dateKey)
                             THEN dailyDrainsMap[ctx.dateKey] ELSE RZero
        newDrains == Put(dailyDrainsMap, ctx.dateKey,
                         RAdd(currentDailyTotal, acc.hp[ref].expectedDrainVolume))
        dailyTicketsMap == IF Has(us.dailyTickets, ctx.id) THEN us.dailyTickets[ctx.id]
                           ELSE EmptyMap
        dayTickets == IF Has(dailyTicketsMap, ctx.dateKey)
                      THEN dailyTicketsMap[ctx.dateKey] ELSE <<>>
        store == /\ matchedTicket # None
                 /\ ~\E i \in 1..Len(dayTickets) :
                        dayTickets[i].ticket_id = matchedTicket[1].ticket_id
    IN  [acc EXCEPT !.us = [us EXCEPT
            !.dailyDrains = Put(@, ctx.id, newDrains),
            !.dailyTickets =
                IF store
                THEN Put(@, ctx.id,
                         Put(dailyTicketsMap, ctx.dateKey, Append(dayTickets, matchedTicket[1])))
                ELSE @],
            !.lg = [@ EXCEPT !.dailyAdds =
                Put(@, ref, (IF Has(@, ref) THEN @[ref] ELSE 0) + 1)]]

\* lines 428-518: the active drain is closed, assessed and removed
FinalizeDrain(acc, ctx, ref) ==
    LET old == acc.hp[ref]
        timeSinceLastDrop == TimeSinceLastDrop(old, ctx.currentTime)
        refillRate == IF ctx.currentLevel > old.levelAfter
                      THEN Rat(ctx.currentLevel - old.levelAfter, timeSinceLastDrop)
                      ELSE RZero
        closed == [old EXCEPT !.refillRate = Some(refillRate), !.isActive = FALSE]
        a0 == [acc EXCEPT
                 !.hp = [@ EXCEPT ![ref] = closed],
                 !.lg = [@ EXCEPT !.finalizedAt = Put(@, ref, ctx.currentTime)]]
        matchedTicket == matchTicketToDrain(closed, ctx.tickets)
        discrepancy == assessDiscrepancy(closed, matchedTicket, TOLERANCE)
        a1 == [a0 EXCEPT !.lg = [@ EXCEPT !.matchOf =
                 Put(@, ref, IF matchedTicket = None THEN None
                             ELSE Some(matchedTicket[1].ticket_id))]]
        a2 == DiscrepancyStep(a1, ctx, discrepancy)
        a3 == CloggedFlowStep(a2, ctx, ref)
        a4 == DailyStep(a3, ctx, ref, matchedTicket)
    IN  [a4 EXCEPT !.us = [@ EXCEPT !.activeDrains = Delete(@, ctx.id)]]

\* a variant that starts a new drain on every drop tick
DrainStep_AlwaysStarts(acc, ctx) ==
    LET hasActive == Has(acc.us.activeDrains, ctx.id)
    IN  IF detectDrainStart(ctx.cauldron, ctx.previousLevel, ctx.currentLevel)
        THEN StartDrain(acc, ctx)
        ELSE IF hasActive
             THEN LET ref == acc.us.activeDrains[ctx.id]
                  IN  IF TimeSinceLastDrop(acc.hp[ref], ctx.currentTime)
                            >= DRAIN_STABILIZATION_TIME
                      THEN FinalizeDrain(acc, ctx, ref)
                      ELSE acc
             ELSE acc

\* lines 394-520: Rule A
DrainStep(acc, ctx) ==
    LET hasActive == Has(acc.us.activeDrains, ctx.id)
    IN  IF detectDrainStart(ctx.cauldron, ctx.previousLevel, ctx.currentLevel)
        THEN IF ~hasActive THEN StartDrain(acc, ctx)
             ELSE ExtendDrain(acc, ctx, acc.us.activeDrains[ctx.id])
        ELSE IF hasActive
             THEN LET ref == acc.us.activeDrains[ctx.id]
                  IN  IF TimeSinceLastDrop(acc.hp[ref], ctx.currentTime)
                            >= DRAIN_STABILIZATION_TIME
                      THEN FinalizeDrain(acc, ctx, ref)
                      ELSE acc
             ELSE acc

\* lines 522-546: Case C, over the finalized drain events of the cauldron
FalseTicketStep(acc, ctx) ==
    LET IsCauldronTicket(t) == t.cauldron_id = Some(ctx.id) /\ t.date # None
        cauldronTickets == SelectSeq(ctx.tickets, IsCauldronTicket)
        IsRecent(ref) == acc.hp[ref].cauldronId = ctx.id /\ ~acc.hp[ref].isActive
        recentRefs == SelectSeq(acc.us.drainEvents, IsRecent)
        recentDrains == [i \in 1..Len(recentRefs) |-> acc.hp[recentRefs[i]]]
        IsFalse(t) == checkFalseTicket(ctx.id, t, recentDrains)
        falseTickets == SelectSeq(cauldronTickets, IsFalse)
    IN  [acc EXCEPT !.alerts = @ \o
            [i \in 1..Len(falseTickets) |->
                MkAlert(AlertId("false-ticket", falseTickets[i].ticket_id, ctx.currentTime),
                        "false_ticket", "warning", Some(ctx.id), ctx.currentTime,
                        [ticketId |-> falseTickets[i].ticket_id])]]

\* the level rate of the tick as the telemetry shows it: the change of the
\* level from the sample before the latest one, per minute between the two
\* (None for a first sample)
ObservedRate(historicalData, cauldronKey) ==
    LET n == Len(historicalData)
    IN  IF n < 2 THEN None
        ELSE IF historicalData[n].timestamp <= historicalData[n - 1].timestamp THEN None
        ELSE Some(Rat(LevelOf(historicalData[n], cauldronKey)
                          - LevelOf(historicalData[n - 1], cauldronKey),
                      historicalData[n].timestamp - historicalData[n - 1].timestamp))

\* the observation of Case G: the tick that began the current run of ticks
\* with a level rate below the threshold (a first sample shows no rise)
ObserveFlat(lg, ctx) ==
    IF ctx.levelRate = None \/ RLt(ctx.levelRate[1], PRODUCTION_STOP_THRESHOLD)
    THEN IF Has(lg.flatSince, ctx.id) THEN lg
         ELSE [lg EXCEPT !.flatSince = Put(@, ctx.id, ctx.currentTime)]
    ELSE [lg EXCEPT !.flatSince = Delete(@, ctx.id)]

\* lines 548-583: Case G
ProductionStopStep(acc, ctx) ==
    LET timeDiff == 1
        lastStable == IF Has(acc.us.lastStableTime, ctx.id)
                      THEN Some(acc.us.lastStableTime[ctx.id]) ELSE None
        productionStop == detectProductionStop(ctx.id, ctx.currentLevel, ctx.previousLevel,
                                               timeDiff, ctx.fillRate, lastStable,
                                               ctx.currentTime)
        lg == ObserveFlat(acc.lg, ctx)
    IN  IF productionStop.isStopped
        THEN [acc EXCEPT
                 !.alerts = Append(@,
                     MkAlert(AlertId("production-stop", ctx.id, ctx.currentTime),
                             "production_stop", "critical", Some(ctx.id), ctx.currentTime,
                             [duration |-> productionStop.duration])),
                 !.lg = lg]
        ELSE IF ctx.currentLevel > ctx.previousLevel
        THEN [acc EXCEPT !.us = [@ EXCEPT !.lastStableTime = Delete(@, ctx.id)], !.lg = lg]
        ELSE IF ~Has(acc.us.lastStableTime, ctx.id)
        THEN [acc EXCEPT !.us = [@ EXCEPT !.lastStableTime = Put(@, ctx.id, ctx.currentTime)],
                         !.lg = lg]
        ELSE [acc EXCEPT !.lg = lg]

\* lines 587-589: null (None) without a positive fill rate
TimeToOverflow(cauldron, currentLevel, fillRate) ==
    IF RLt(RZero, fillRate)
    THEN Some(RDiv(RInt(cauldron.max_volume - currentLevel), fillRate))
    ELSE None

\* lines 596-599
ShouldAlertOverflow(timeToOverflow, acknowledgedAlerts, alertId) ==
    /\ RLe(RInt(9), timeToOverflow)
    /\ RLe(timeToOverflow, RInt(11))
    /\ alertId \notin acknowledgedAlerts
    /\ RLt(timeToOverflow, RInt(240))

\* lines 585-619: Rule 6
OverflowStep(acc, ctx) ==
    LET timeToOverflow == TimeToOverflow(ctx.cauldron, ctx.currentLevel, ctx.fillRate)
        alertId == "overflow-" \o ctx.id
    IN  IF timeToOverflow = None THEN acc
        ELSE [acc EXCEPT
                !.us = [@ EXCEPT !.overflowForecasts = Put(@, ctx.id, timeToOverflow[1])],
                !.alerts =
                    IF ShouldAlertOverflow(timeToOverflow[1], acc.us.acknowledgedAlerts, alertId)
                    THEN Append(@, MkAlert(alertId, "overflow", "critical", Some(ctx.id),
                                           ctx.currentTime,
                                           [timeToOverflow |-> timeToOverflow[1]]))
                    ELSE @]

\* lines 622-623: (level / max_volume) * 100
Percentage(level, cauldron) == Rat(level * 100, cauldron.max_volume)

\* a variant without the branch that resets the flag
CriticalLevelStep_NeverCleared(acc, ctx) ==
    LET percentage == Percentage(ctx.currentLevel, ctx.cauldron)
        previousPercentage == Percentage(ctx.previousLevel, ctx.cauldron)
        criticalThreshold == RInt(80)
        alertId == "critical-level-" \o ctx.id
    IN  IF RLt(criticalThreshold, percentage) /\ RLe(previousPercentage, criticalThreshold)
           /\ alertId \notin acc.us.acknowledgedAlerts
           /\ ctx.id \notin acc.us.criticalLevelAlerts
        THEN [acc EXCEPT
                !.us = [@ EXCEPT !.criticalLevelAlerts = @ \cup {ctx.id}],
                !.alerts = Append(@, MkAlert(alertId, "critical_level", "critical",
                                             Some(ctx.id), ctx.currentTime,
                                             [currentLevel |-> ctx.currentLevel]))]
        ELSE acc

\* lines 621-655: critical level
CriticalLevelStep(acc, ctx) ==
    LET percentage == Percentage(ctx.currentLevel, ctx.cauldron)
        previousPercentage == Percentage(ctx.previousLevel, ctx.cauldron)
        criticalThreshold == RInt(80)
        alertId == "critical-level-" \o ctx.id
    IN  IF RLt(criticalThreshold, percentage) /\ RLe(previousPercentage, criticalThreshold)
        THEN IF alertId \notin acc.us.acknowledgedAlerts
                /\ ctx.id \notin acc.us.criticalLevelAlerts
             THEN [acc EXCEPT
                     !.us = [@ EXCEPT !.criticalLevelAlerts = @ \cup {ctx.id}],
                     !.alerts = Append(@, MkAlert(alertId, "critical_level", "critical",
                                                  Some(ctx.id), ctx.currentTime,
                                                  [currentLevel |-> ctx.currentLevel]))]
             ELSE acc
        ELSE IF RLe(percentage, criticalThreshold) /\ RLt(criticalThreshold, previousPercentage)
        THEN [acc EXCEPT !.us = [@ EXCEPT !.criticalLevelAlerts = @ \ {ctx.id}]]
        ELSE acc

\* line 384: state.lastLevels.get(id) || currentLevel (a stored 0 is falsy)
PreviousLevel(s, id, currentLevel) ==
    IF Has(s.lastLevels, id) /\ s.lastLevels[id] # 0 THEN s.lastLevels[id]
    ELSE currentLevel

\* line 388: baselineFillRates.get(id) || fillRate, read before the baseline is set
BaselineFillRate(us, id, fillRate) ==
    IF Has(us.baselineFillRates, id) /\ us.baselineFillRates[id] # RZero
    THEN us.baselineFillRates[id]
    ELSE fillRate

\* lines 379-659: the body of cauldrons.forEach
ProcessCauldron(cauldron, acc, historicalData, tks, currentTime, s, currentLevels) ==
    IF cauldron.id = None \/ cauldron.max_volume = 0 THEN acc
    ELSE LET id == cauldron.id[1]
             currentLevel == LevelOf(currentLevels, LevelKey(id))
             fillRate == calculateFillRate(id, historicalData, LOOKBACK_MINUTES)
             ctx == [cauldron |-> cauldron,
                     id |-> id,
                     currentLevel |-> currentLevel,
                     previousLevel |-> PreviousLevel(s, id, currentLevel),
                     fillRate |-> fillRate,
                     baselineFillRate |-> BaselineFillRate(acc.us, id, fillRate),
                     currentTime |-> currentTime,
                     dateKey |-> DateKey(currentTime),
                     tickets |-> tks,
                     levelRate |-> ObservedRate(historicalData, LevelKey(id))]
             a1 == FillRateStep(acc, ctx)
             a2 == DrainStep(a1, ctx)
             a3 == FalseTicketStep(a2, ctx)
             a4 == ProductionStopStep(a3, ctx)
             a5 == OverflowStep(a4, ctx)
             a6 == CriticalLevelStep(a5, ctx)
         IN  [a6 EXCEPT !.us = [@ EXCEPT !.lastLevels = Put(@, id, currentLevel)]]

RECURSIVE ProcessCauldrons(_, _, _, _, _, _, _, _)
ProcessCauldrons(cauldrons, i, acc, historicalData, tks, currentTime, s, currentLevels) ==
    IF i > Len(cauldrons) THEN acc
    ELSE ProcessCauldrons(cauldrons, i + 1,
             ProcessCauldron(cauldrons[i], acc, historicalData, tks, currentTime, s,
                             currentLevels),
             historicalData, tks, currentTime, s, currentLevels)

\* lines 662-664: getHours() = 23 and getMinutes() >= 55 (the clock of the
\* model is UTC, like its calendar days)
InAuditWindow(currentTime) == currentTime % MINUTES_PER_DAY >= 23 * 60 + 55

RECURSIVE SumAmounts(_)
SumAmounts(tks) ==
    IF tks = <<>> THEN 0 ELSE tks[1].amount_collected + SumAmounts(Tail(tks))

\* lines 668-677: the totals of the day over all cauldrons with an id
RECURSIVE DailyTotals(_, _, _, _)
DailyTotals(cauldrons, i, us, dateKey) ==
    IF i > Len(cauldrons) THEN [expected |-> RZero, ticketed |-> RZero]
    ELSE LET rest == DailyTotals(cauldrons, i + 1, us, dateKey)
             c == cauldrons[i]
         IN  IF c.id = None THEN rest
             ELSE LET id == c.id[1]
                      e == IF Has(us.dailyDrains, id) /\ Has(us.dailyDrains[id], dateKey)
                           THEN us.dailyDrains[id][dateKey] ELSE RZero
                      t == IF Has(us.dailyTickets, id) /\ Has(us.dailyTickets[id], dateKey)
                           THEN SumAmounts(us.dailyTickets[id][dateKey]) ELSE 0
                  IN  [expected |-> RAdd(rest.expected, e),
                       ticketed |-> RAdd(rest.ticketed, RInt(t))]

\* lines 661-698: Case H
AuditStep(acc, cauldrons, currentTime) ==
    IF ~InAuditWindow(currentTime) THEN acc
    ELSE LET tot == DailyTotals(cauldrons, 1, acc.us, DateKey(currentTime))
         IN  IF checkDailyDiscrepancy(tot.expected, tot.ticketed, 5)
             THEN [acc EXCEPT
                     !.alerts = Append(@,
                         MkAlert("daily-audit-" \o ToString(currentTime), "audit", "warning",
                                 None, currentTime,
                                 [totalExpected |-> tot.expected,
                                  totalTicketed |-> tot.ticketed])),
                     !.lg = [@ EXCEPT !.auditTimes = @ \cup {currentTime}]]
             ELSE acc

\* lines 702-726: the alerts of one courier
CourierAlerts(courier, tks, network, currentTime) ==
    IF courier.courier_id = None THEN <<>>
    ELSE LET IsCourierTicket(t) == t.courier_id = courier.courier_id /\ t.date # None
             courierTickets == SelectSeq(tks, IsCourierTicket)
             IsDelayed(t) ==
                 LET delayCheck == checkDeliveryDelay(courier, t, network, currentTime)
                 IN  delayCheck # None /\ delayCheck[1]
             delayed == SelectSeq(courierTickets, IsDelayed)
         IN  [i \in 1..Len(delayed) |->
                 MkAlert(AlertId("delivery-delay", courier.courier_id[1], currentTime),
                         "delivery_delay", "warning", delayed[i].cauldron_id, currentTime,
                         [courierId |-> courier.courier_id[1]])]

RECURSIVE DeliveryAlerts(_, _, _, _, _)
DeliveryAlerts(couriers, i, tks, network, currentTime) ==
    IF i > Len(couriers) THEN <<>>
    ELSE CourierAlerts(couriers[i], tks, network, currentTime)
         \o DeliveryAlerts(couriers, i + 1, tks, network, currentTime)

\* lines 700-727: couriers and network are optional arguments
DeliveryStep(acc, couriers, tks, network, currentTime) ==
    IF couriers = None \/ network = None THEN acc
    ELSE [acc EXCEPT !.alerts = @ \o DeliveryAlerts(couriers[1], 1, tks, network, currentTime)]

\* monitorRealTime(cauldrons, historicalData, tickets, currentTimestamp, state,
\* couriers, network); hp and lg are the heap and the observations it works on.
\* The result is the accumulator: alerts, us (updatedState), hp, lg.
\* what a call was given: the number of samples, and whether the optional
\* arguments were supplied
Observe(lg, historicalData, couriers, network) ==
    [lg EXCEPT !.lastCall = Some([samples |-> Len(historicalData),
                                  couriers |-> couriers # None,
                                  network |-> network # None])]

\* a variant that returns before the vessel loop when couriers or network is missing
monitorRealTime_NeedsNetwork(cauldrons, historicalData, tks, currentTime, s, couriers, network, hp, lg) ==
    LET acc0 == [us |-> s, hp |-> hp, alerts |-> <<>>,
                 lg |-> Observe(lg, historicalData, couriers, network)]
        currentDataPoint == NearestSample(historicalData, currentTime)
    IN  IF currentDataPoint = None \/ couriers = None \/ network = None THEN acc0
        ELSE LET a1 == ProcessCauldrons(cauldrons, 1, acc0, historicalData, tks, currentTime,
                                        s, currentDataPoint[1])
                 a2 == AuditStep(a1, cauldrons, currentTime)
             IN  DeliveryStep(a2, couriers, tks, network, currentTime)

monitorRealTime(cauldrons, historicalData, tks, currentTime, s, couriers, network, hp, lg) ==
    LET acc0 == [us |-> s, hp |-> hp, alerts |-> <<>>,
                 lg |-> Observe(lg, historicalData, couriers, network)]
        currentDataPoint == NearestSample(historicalData, currentTime)
    IN  IF currentDataPoint = None THEN acc0
        ELSE LET a1 == ProcessCauldrons(cauldrons, 1, acc0, historicalData, tks, currentTime,
                                        s, currentDataPoint[1])
                 a2 == AuditStep(a1, cauldrons, currentTime)
             IN  DeliveryStep(a2, couriers, tks, network, currentTime)

initializeMonitoringState ==
    [fillRates |-> EmptyMap,
     baselineFillRates |-> EmptyMap,
     lastLevels |-> EmptyMap,
     drainEvents |-> <<>>,
     dailyDrains |-> EmptyMap,
     dailyTickets |-> EmptyMap,
     discrepancyCounts |-> EmptyMap,
     overflowForecasts |-> EmptyMap,
     activeDrains |-> EmptyMap,
     lastStableTime |-> EmptyMap,
     courierPositions |-> EmptyMap,
     acknowledgedAlerts |-> {},
     criticalLevelAlerts |-> {}]

\* a variant that toggles: an id that is already acknowledged is removed
acknowledgeAlert_Toggle(s, alertId) ==
    [s EXCEPT !.acknowledgedAlerts =
        IF alertId \in @ THEN @ \ {alertId} ELSE @ \cup {alertId}]

acknowledgeAlert(s, alertId) ==
    [s EXCEPT !.acknowledgedAlerts = @ \cup {alertId}]

EmptyLog ==
    [matchOf |-> EmptyMap,           \* drain ref -> the ticket id matched at finalization
     lastDrop |-> EmptyMap,          \* drain ref -> latest tick on which its drop held
     dropRate |-> EmptyMap,          \* drain ref -> fill rate of that tick
     dropTicks |-> EmptyMap,         \* drain ref -> number of its drop ticks
     finalizedAt |-> EmptyMap,       \* drain ref -> tick that closed it
     discrepancyTimes |-> EmptyMap,  \* cauldron id -> ticks that recorded a discrepancy
     auditTimes |-> {},              \* ticks that emitted an audit alert
     flatSince |-> EmptyMap,         \* cauldron id -> first tick of its current flat run
     dailyAdds |-> EmptyMap,         \* drain ref -> times its volume entered a daily total
     lastCall |-> None]              \* what the latest monitorRealTime call was given

----------------------------------------------------------------------------
(* The state machine *)

Init ==
    /\ now \in {StartTime, LateStart}
    /\ telemetry = <<>>
    /\ tickets \in TicketLists
    /\ state = initializeMonitoringState
    /\ heap = <<>>
    /\ alerts = <<>>
    /\ priorState = initializeMonitoringState
    /\ priorHeap = <<>>
    /\ log = EmptyLog
    /\ probe = None
    /\ answer = None
    /\ realtimeAlerts = <<>>
    /\ prevAlerts = <<>>

\* the caller keeps the updated state and the new alerts of the result
Keep(r) ==
    /\ state' = r.us
    /\ heap' = r.hp
    /\ alerts' = r.alerts
    /\ log' = r.lg

\* the caller runs monitorRealTime on its state and keeps the updated state
CallWith(historicalData, currentTime, couriers, network) ==
    /\ Keep(monitorRealTime(Cauldrons, historicalData, tickets, currentTime, state,
                            couriers, network, heap, log))
    /\ priorState' = state
    /\ priorHeap' = heap

Call(historicalData, currentTime) ==
    CallWith(historicalData, currentTime, Some(Couriers), Network)

\* the clock advances, a new sample arrives, and the tick is processed
AdvanceWith(maxSamples, steps, levels) ==
    /\ Len(telemetry) < maxSamples
    /\ \E dt \in steps : \E sample \in SamplesOf(now + dt, levels) :
          /\ now' = now + dt
          /\ telemetry' = Append(telemetry, sample)
          /\ Call(Append(telemetry, sample), now + dt)
    /\ UNCHANGED <<tickets, probe, answer, realtimeAlerts, prevAlerts>>

Advance(maxSamples) == AdvanceWith(maxSamples, Steps, Levels)

Tick == Advance(MaxTicks)

\* the monitoring effect of the dashboard runs again on the updated state with
\* the same timestamp and the same data
Retick ==
    /\ telemetry # <<>>
    /\ Call(telemetry, now)
    /\ UNCHANGED <<now, telemetry, tickets, probe, answer, realtimeAlerts, prevAlerts>>

\* an alert of the latest tick is acknowledged
Acknowledge ==
    /\ \E i \in 1..Len(alerts) :
          /\ Cardinality(state.acknowledgedAlerts \cup {alerts[i].id}) <= MaxAck
          /\ state' = acknowledgeAlert(state, alerts[i].id)
    /\ UNCHANGED <<now, telemetry, tickets, heap, alerts, priorState, priorHeap, log,
                    probe, answer, realtimeAlerts, prevAlerts>>

Next == Tick \/ Retick \/ Acknowledge

Spec == Init /\ [][Next]_vars

\* a longer run of ticks alone: the clock only advances
Run == Advance(MaxRun)

NextRun == Run

SpecRun == Init /\ [][NextRun]_vars

\* a short run of ticks over finely graded levels
Fine == AdvanceWith(MaxFine, FineSteps, FineLevels)

NextFine == Fine

SpecFine == Init /\ [][NextFine]_vars

----------------------------------------------------------------------------
(* Direct calls of the rule functions: the arguments are drawn from       *)
(* bounded sets, the call stores the result.                              *)

\* a finalized DrainEvent that started at timestamp ts
ProbeDrain(ts, expected) ==
    [cauldronId |-> "cauldron_001", timestamp |-> ts, levelBefore |-> 90,
     levelAfter |-> 35, expectedDrainVolume |-> expected, duration |-> 1,
     refillRate |-> Some(RZero), isActive |-> FALSE]

ProbeTicket(name, cauldronId, amount, date) ==
    [ticket_id |-> name, cauldron_id |-> Some(cauldronId), amount_collected |-> amount,
     courier_id |-> Some("courier_1"), date |-> date]

\* arguments of assessDiscrepancy: expected volumes 0, 0.5, .. 12, a ticket
\* reporting 0 .. 14 or none, tolerances 0, 2, 3
AssessProbes(tolerances) ==
    { [fn |-> "assessDiscrepancy",
       drainEvent |-> ProbeDrain(StartTime, Rat(n, 2)),
       ticket |-> tk,
       tolerance |-> tol]
      : n \in 0..24,
        tk \in {None} \cup { Some(ProbeTicket("T1", "cauldron_001", a, Some(StartTime)))
                               : a \in 0..14 },
        tol \in tolerances }

\* the dates a probe ticket can carry, relative to the drain start ts
ProbeDates(ts) ==
    {None} \cup { Some(ts + d) : d \in {-TWO_HOURS - 1, -TWO_HOURS, -61, -10, 10, TWO_HOURS} }

ProbeNames == <<"A", "B", "C", "D">>

ProbeTicketLists(ts, maxTickets) ==
    UNION { { [i \in 1..n |-> ProbeTicket(ProbeNames[i], c[i], 10, d[i])]
              : c \in [1..n -> {"cauldron_001", "cauldron_2"}],
                d \in [1..n -> ProbeDates(ts)] }
            : n \in 0..maxTickets }

\* arguments of matchTicketToDrain: a drain started at 10:00 of day 0 or at
\* 01:00 of day 1 (61 minutes earlier is the day before)
MatchProbes(maxTickets) ==
    UNION { { [fn |-> "matchTicketToDrain", drainEvent |-> ProbeDrain(ts, RInt(55)),
               tickets |-> tl] : tl \in ProbeTicketLists(ts, maxTickets) }
            : ts \in {StartTime, MINUTES_PER_DAY + 60} }

\* the sum of the k-th components of the first n pairs of ds
RECURSIVE SumTo(_, _, _)
SumTo(ds, k, n) == IF n = 0 THEN 0 ELSE ds[n][k] + SumTo(ds, k, n - 1)

\* consecutive samples differ by <<minutes, level change>> out of ProbeDeltas
ProbeDeltas == {-1, 0, 1, LOOKBACK_MINUTES + 1} \X {-1, 1, 100}

ProbeHistory(ds) ==
    [i \in 1..(Len(ds) + 1) |->
        [timestamp |-> StartTime + SumTo(ds, 1, i - 1),
         cauldron_levels |->
            [k \in LevelKeys |-> IF k = "cauldron_001" THEN 10 + SumTo(ds, 2, i - 1) ELSE 0]]]

\* arguments of calculateFillRate: no sample, or 1 to maxSamples samples
FillRateProbes(maxSamples) ==
    { [fn |-> "calculateFillRate", cauldronId |-> "cauldron_001", historicalData |-> h,
       lookbackMinutes |-> LOOKBACK_MINUTES]
      : h \in {<<>>} \cup
               UNION { { ProbeHistory(ds) : ds \in [1..n -> ProbeDeltas] }
                       : n \in 0..(maxSamples - 1) } }

InitProbe(probes) ==
    /\ now = StartTime
    /\ telemetry = <<>>
    /\ tickets \in TicketLists
    /\ state = initializeMonitoringState
    /\ heap = <<>>
    /\ alerts = <<>>
    /\ priorState = initializeMonitoringState
    /\ priorHeap = <<>>
    /\ log = EmptyLog
    /\ probe \in probes
    /\ answer = None
    /\ realtimeAlerts = <<>>
    /\ prevAlerts = <<>>

Answer(fn, result) ==
    /\ probe.fn = fn
    /\ answer = None
    /\ answer' = Some(result)
    /\ UNCHANGED <<now, telemetry, tickets, state, heap, alerts, priorState, priorHeap, log,
                    probe, realtimeAlerts, prevAlerts>>

ApplyAssessDiscrepancy ==
    Answer("assessDiscrepancy",
           assessDiscrepancy(probe.drainEvent, probe.ticket, probe.tolerance))

ApplyMatchTicketToDrain ==
    Answer("matchTicketToDrain", matchTicketToDrain(probe.drainEvent, probe.tickets))

ApplyCalculateFillRate ==
    Answer("calculateFillRate",
           calculateFillRate(probe.cauldronId, probe.historicalData, probe.lookbackMinutes))

InitAssess == InitProbe(AssessProbes({0, TOLERANCE, 3}))
NextAssess == ApplyAssessDiscrepancy
SpecAssess == InitAssess /\ [][NextAssess]_vars

InitMatch == InitProbe(MatchProbes(MaxProbeTickets))
NextMatch == ApplyMatchTicketToDrain
SpecMatch == InitMatch /\ [][NextMatch]_vars

InitFillRate == InitProbe(FillRateProbes(MaxProbeSamples))
NextFillRate == ApplyCalculateFillRate
SpecFillRate == InitFillRate /\ [][NextFillRate]_vars

----------------------------------------------------------------------------
(* Vocabulary of the properties *)

\* the cauldrons a tick processes, by id
ValidIds ==
    { Cauldrons[i].id[1] : i \in { j \in 1..Len(Cauldrons) :
                                     Cauldrons[j].id # None /\ Cauldrons[j].max_volume > 0 } }

MaxVolume(id) ==
    LET i == CHOOSE j \in 1..Len(Cauldrons) : Cauldrons[j].id = Some(id)
    IN  Cauldrons[i].max_volume

\* a monitorRealTime call has been made
Called == telemetry # <<>>

\* positions in the returned list of the alerts of a type about a cauldron
AlertsOf(type, id) ==
    { i \in 1..Len(alerts) : alerts[i].type = type /\ alerts[i].cauldronId = Some(id) }

\* the drains the latest call closed
FinalizedNow == { r \in 1..Len(priorHeap) : priorHeap[r].isActive /\ ~heap[r].isActive }

----------------------------------------------------------------------------
(* C1: ticket exclusivity.  No ticket id is returned by the ticket matcher  *)
(* as the match of two distinct finalized drain events.                     *)
C1_TicketExclusive ==
    \A r1, r2 \in DOMAIN log.matchOf :
        (r1 # r2 /\ log.matchOf[r1] # None) => log.matchOf[r1] # log.matchOf[r2]

(* C2: critical_level is emitted once per upward crossing of 80% of        *)
(* max_volume and on no other tick: with the level stored by the previous  *)
(* tick at or below 80% and the level of this tick above 80% the returned  *)
(* list holds exactly one critical_level alert of the vessel, otherwise    *)
(* none.  Stated for the calls whose prior state has not acknowledged the  *)
(* alert id of the vessel.                                                 *)
UpwardCrossing(id) ==
    /\ Has(priorState.lastLevels, id)
    /\ 100 * priorState.lastLevels[id] <= 80 * MaxVolume(id)
    /\ 100 * state.lastLevels[id] > 80 * MaxVolume(id)

C2_OneAlertPerCrossing ==
    Called =>
        \A id \in ValidIds :
            ("critical-level-" \o id) \notin priorState.acknowledgedAlerts =>
                Cardinality(AlertsOf("critical_level", id))
                    = IF UpwardCrossing(id) THEN 1 ELSE 0

(* C3: the overflow alert is edge-triggered: it is not emitted on two      *)
(* consecutive ticks of the clock (the second tick finds the condition of  *)
(* the first still holding, and the id unacknowledged).                    *)
C3_OverflowEdgeTriggered ==
    [][ \A id \in ValidIds :
          (now' > now /\ AlertsOf("overflow", id) # {})
              => ~\E i \in 1..Len(alerts') :
                     alerts'[i].type = "overflow" /\ alerts'[i].cauldronId = Some(id) ]_vars

(* C4: no alert returned by a call has an id that is in the                *)
(* acknowledgedAlerts set of the state passed to the call.                 *)
C4_NoAcknowledgedAlert ==
    \A i \in 1..Len(alerts) : alerts[i].id \notin priorState.acknowledgedAlerts

(* C5: a drain is finalized only by a tick at least the stabilization      *)
(* window (5 minutes) after the most recent tick on which its drop         *)
(* condition held.                                                         *)
C5_StabilizedSinceLastDrop ==
    \A r \in DOMAIN log.finalizedAt :
        log.finalizedAt[r] - log.lastDrop[r] >= DRAIN_STABILIZATION_TIME

C7_PriorStateUntouched ==
    \A r \in 1..Len(priorHeap) : heap[r] = priorHeap[r]

(* C8: on every tick a false_ticket warning is emitted for a dated ticket  *)
(* of a vessel if and only if no drain event of that vessel, active or     *)
(* finalized, starts on the ticket's calendar day within 2 hours of the    *)
(* ticket time.                                                            *)
DrainNear(id, t) ==
    \E r \in 1..Len(heap) :
        /\ heap[r].cauldronId = id
        /\ heap[r].timestamp \div MINUTES_PER_DAY = t.date[1] \div MINUTES_PER_DAY
        /\ heap[r].timestamp - t.date[1] <= TWO_HOURS
        /\ t.date[1] - heap[r].timestamp <= TWO_HOURS

FalseTicketEmitted(id, t) ==
    \E i \in AlertsOf("false_ticket", id) : alerts[i].details.ticketId = t.ticket_id

C8_FalseTicketIffNoDrain ==
    Called =>
        \A id \in ValidIds : \A k \in 1..Len(tickets) :
            (tickets[k].cauldron_id = Some(id) /\ tickets[k].date # None)
                => (FalseTicketEmitted(id, tickets[k]) <=> ~DrainNear(id, tickets[k]))

(* C9: on the tick a drain is finalized a clogged_flow warning is emitted  *)
(* if and only if the drain's refill rate is below 0.5 x the vessel's      *)
(* baseline fill rate, a refill rate of 0 under a positive baseline        *)
(* included.                                                               *)
BaselineOf(id) ==
    IF Has(state.baselineFillRates, id) THEN state.baselineFillRates[id] ELSE <<0, 1>>

C9_CloggedIffSlowRefill ==
    \A r \in FinalizedNow :
        LET id == heap[r].cauldronId
            refill == heap[r].refillRate[1]
        IN  (AlertsOf("clogged_flow", id) # {})
                <=> (2 * refill[1] * BaselineOf(id)[2] < BaselineOf(id)[1] * refill[2])

(* C10: a drift alert is emitted for a vessel exactly on a tick that       *)
(* records a discrepancy of the vessel which is at least the second one    *)
(* of the vessel within the trailing 3 days.                               *)
RecentDiscrepancies(id) ==
    IF Has(log.discrepancyTimes, id)
    THEN { t \in log.discrepancyTimes[id] : now - t <= 3 * MINUTES_PER_DAY }
    ELSE {}

C10_DriftWithinThreeDays ==
    Called =>
        \A id \in ValidIds :
            (AlertsOf("drift", id) # {})
                <=> (now \in RecentDiscrepancies(id)
                     /\ Cardinality(RecentDiscrepancies(id)) >= 2)

(* C11: audit alerts are emitted only on ticks in the last 5 minutes of a  *)
(* calendar day and only when |expected - reported| / expected, summed     *)
(* over all vessels for that day, exceeds 5% (none when expected is 0);    *)
(* and no two distinct ticks of one calendar day both emit an audit alert. *)
AuditAlerts == { i \in 1..Len(alerts) : alerts[i].type = "audit" }

DayTotals == DailyTotals(Cauldrons, 1, state, DateKey(now))

C11_AuditOncePerDay ==
    /\ AuditAlerts # {} =>
           /\ now % MINUTES_PER_DAY >= MINUTES_PER_DAY - 5
           /\ DayTotals.expected # RZero
           /\ RLt(<<5, 100>>,
                  RDiv(RAbs(RSub(DayTotals.expected, DayTotals.ticketed)), DayTotals.expected))
    /\ \A t1, t2 \in log.auditTimes : t1 # t2 => DateKey(t1) # DateKey(t2)

(* C12: a vessel whose max_volume is zero or negative, or whose id is      *)
(* missing, is excluded from the tick: the state holds no entry of that    *)
(* vessel, no drain event of it exists and no per-vessel alert (an alert   *)
(* of a rule of the cauldron loop) names it.                               *)
ExcludedIds ==
    { Cauldrons[i].id[1] : i \in { j \in 1..Len(Cauldrons) :
                                     Cauldrons[j].id # None /\ Cauldrons[j].max_volume <= 0 } }

StateKeys(s) ==
    DOMAIN s.fillRates \cup DOMAIN s.baselineFillRates \cup DOMAIN s.lastLevels
    \cup DOMAIN s.dailyDrains \cup DOMAIN s.dailyTickets \cup DOMAIN s.discrepancyCounts
    \cup DOMAIN s.overflowForecasts \cup DOMAIN s.activeDrains \cup DOMAIN s.lastStableTime
    \cup s.criticalLevelAlerts

PerVesselTypes ==
    {"unlogged_event", "overreporting", "unlogged_drain", "drift", "clogged_flow",
     "false_ticket", "production_stop", "overflow", "critical_level"}

C12_InvalidVesselExcluded ==
    \A id \in ExcludedIds :
        /\ id \notin StateKeys(state)
        /\ \A r \in 1..Len(heap) : heap[r].cauldronId # id
        /\ \A i \in 1..Len(alerts) :
               alerts[i].type \in PerVesselTypes => alerts[i].cauldronId # Some(id)

(* C13: within the alert list returned by one call no two alerts share an  *)
(* id.                                                                     *)
C13_AlertIdsUnique ==
    \A i, j \in 1..Len(alerts) : i # j => alerts[i].id # alerts[j].id

(* C14: on a call whose prior state holds no active drain of a valid       *)
(* vessel, a new active drain event of the vessel is created if and only   *)
(* if the level stored by the previous tick minus the current level        *)
(* exceeds 5% of max_volume; the event has levelBefore = that stored       *)
(* level, levelAfter = the current level and isActive = TRUE.  A drop of   *)
(* exactly 5% starts no drain.                                             *)
DropAbove(id, percent) ==
    /\ Has(priorState.lastLevels, id)
    /\ 100 * (priorState.lastLevels[id] - state.lastLevels[id]) > percent * MaxVolume(id)

C14_DrainStartsAboveFivePercent ==
    Called =>
        \A id \in ValidIds :
            ~Has(priorState.activeDrains, id) =>
                /\ Has(state.activeDrains, id) <=> DropAbove(id, 5)
                /\ Has(state.activeDrains, id) =>
                       /\ state.activeDrains[id] = Len(priorHeap) + 1
                       /\ heap[state.activeDrains[id]].cauldronId = id
                       /\ heap[state.activeDrains[id]].levelBefore = priorState.lastLevels[id]
                       /\ heap[state.activeDrains[id]].levelAfter = state.lastLevels[id]
                       /\ heap[state.activeDrains[id]].isActive

\* a tick with a drop of exactly 5% of max_volume and no drain afterwards
C14_Witness ==
    /\ Called
    /\ \E id \in ValidIds :
          /\ ~Has(priorState.activeDrains, id)
          /\ Has(priorState.lastLevels, id)
          /\ 100 * (priorState.lastLevels[id] - state.lastLevels[id]) = 5 * MaxVolume(id)
          /\ ~Has(state.activeDrains, id)

(* C15: on the tick a drain is finalized with no eligible ticket (no dated *)
(* ticket of that vessel on the calendar day of the drain start within 2   *)
(* hours of it) the returned list holds exactly one unlogged_event alert   *)
(* of the vessel, of severity critical; on every other tick it holds none. *)
TicketNear(r) ==
    \E k \in 1..Len(tickets) :
        /\ tickets[k].date # None
        /\ tickets[k].cauldron_id = Some(heap[r].cauldronId)
        /\ tickets[k].date[1] \div MINUTES_PER_DAY = heap[r].timestamp \div MINUTES_PER_DAY
        /\ tickets[k].date[1] - heap[r].timestamp <= TWO_HOURS
        /\ heap[r].timestamp - tickets[k].date[1] <= TWO_HOURS

FinalizedWithoutTicket(id) ==
    { r \in FinalizedNow : heap[r].cauldronId = id /\ ~TicketNear(r) }

C15_UnloggedEventForUnticketedDrain ==
    Called =>
        \A id \in ValidIds :
            /\ Cardinality(AlertsOf("unlogged_event", id))
                   = IF FinalizedWithoutTicket(id) # {} THEN 1 ELSE 0
            /\ \A i \in AlertsOf("unlogged_event", id) : alerts[i].severity = "critical"

\* a tick that finalized a drain without an eligible ticket
C15_Witness ==
    Called /\ \E id \in ValidIds : FinalizedWithoutTicket(id) # {}

(* C16: assessDiscrepancy returns, for a tolerance >= 0: unlogged_event /  *)
(* critical when there is no ticket; overreporting / warning when          *)
(* reported - expected > tolerance; unlogged_drain / critical when         *)
(* expected - reported > tolerance; and no discrepancy when                *)
(* |reported - expected| <= tolerance.                                     *)
Outcome(type, severity) == Some([type |-> type, severity |-> severity])

C16_AssessDiscrepancyOutcome ==
    (probe.fn = "assessDiscrepancy" /\ answer # None) =>
        LET expected == probe.drainEvent.expectedDrainVolume
            tolerance == probe.tolerance
        IN  IF probe.ticket = None
            THEN answer[1] = Outcome("unlogged_event", "critical")
            ELSE LET reported == probe.ticket[1].amount_collected
                 IN  IF reported * expected[2] - expected[1] > tolerance * expected[2]
                     THEN answer[1] = Outcome("overreporting", "warning")
                     ELSE IF expected[1] - reported * expected[2] > tolerance * expected[2]
                     THEN answer[1] = Outcome("unlogged_drain", "critical")
                     ELSE answer[1] = None

\* expected 8.0, reported 12.0, tolerance 2.0: overreporting, warning
C16_Witness ==
    /\ probe.fn = "assessDiscrepancy"
    /\ probe.drainEvent.expectedDrainVolume = <<8, 1>>
    /\ probe.ticket # None
    /\ probe.ticket[1].amount_collected = 12
    /\ probe.tolerance = TOLERANCE
    /\ answer = Some(Outcome("overreporting", "warning"))

(* C17: matchTicketToDrain returns none when no dated ticket of the        *)
(* drain's vessel lies on the calendar day of the drain start within 2     *)
(* hours (inclusive) of it; otherwise it returns an eligible ticket at the *)
(* least distance in time from the drain start, the first of the list      *)
(* among the eligible tickets at that distance.                            *)
ProbeEligible ==
    { k \in 1..Len(probe.tickets) :
        /\ probe.tickets[k].date # None
        /\ probe.tickets[k].cauldron_id = Some(probe.drainEvent.cauldronId)
        /\ probe.tickets[k].date[1] \div MINUTES_PER_DAY
               = probe.drainEvent.timestamp \div MINUTES_PER_DAY
        /\ probe.tickets[k].date[1] - probe.drainEvent.timestamp <= TWO_HOURS
        /\ probe.drainEvent.timestamp - probe.tickets[k].date[1] <= TWO_HOURS }

ProbeDistance(k) ==
    IF probe.tickets[k].date[1] >= probe.drainEvent.timestamp
    THEN probe.tickets[k].date[1] - probe.drainEvent.timestamp
    ELSE probe.drainEvent.timestamp - probe.tickets[k].date[1]

C17_MatchIsNearestEligible ==
    (probe.fn = "matchTicketToDrain" /\ answer # None) =>
        IF ProbeEligible = {} THEN answer[1] = None
        ELSE \E k \in ProbeEligible :
                /\ answer[1] = Some(probe.tickets[k])
                /\ \A j \in ProbeEligible :
                       /\ ProbeDistance(k) <= ProbeDistance(j)
                       /\ ProbeDistance(j) = ProbeDistance(k) => k <= j

\* two eligible tickets at the same least distance, a third one further away
C17_Witness ==
    /\ probe.fn = "matchTicketToDrain"
    /\ answer # None
    /\ answer[1] # None
    /\ \E j, k, l \in ProbeEligible :
          /\ j < k
          /\ answer[1] = Some(probe.tickets[j])
          /\ ProbeDistance(j) = ProbeDistance(k)
          /\ l < j
          /\ ProbeDistance(l) > ProbeDistance(j)

(* C18: calculateFillRate returns the median of the slopes of the          *)
(* consecutive sample pairs that end inside the lookback window (counted   *)
(* back from the last sample), have a positive time difference and a       *)
(* rising level: the middle slope, or the mean of the two middle slopes    *)
(* for an even count; 0 when there are fewer than 2 samples or no such     *)
(* pair.  The result is never negative.                                    *)
ProbeLevel(i) == probe.historicalData[i].cauldron_levels["cauldron_001"]
ProbeRise(i) == ProbeLevel(i) - ProbeLevel(i - 1)
ProbeMinutes(i) == probe.historicalData[i].timestamp - probe.historicalData[i - 1].timestamp

CountedPairs ==
    { i \in 2..Len(probe.historicalData) :
        /\ probe.historicalData[i].timestamp
               >= probe.historicalData[Len(probe.historicalData)].timestamp
                  - probe.lookbackMinutes
        /\ ProbeMinutes(i) > 0
        /\ ProbeRise(i) > 0 }

\* a counted pair whose slope is the k-th smallest
KthSlope(k) ==
    CHOOSE i \in CountedPairs :
        /\ Cardinality({ j \in CountedPairs :
                            ProbeRise(j) * ProbeMinutes(i) < ProbeRise(i) * ProbeMinutes(j) }) < k
        /\ Cardinality({ j \in CountedPairs :
                            ProbeRise(j) * ProbeMinutes(i) <= ProbeRise(i) * ProbeMinutes(j) }) >= k

C18_FillRateIsMedianOfRisingSlopes ==
    (probe.fn = "calculateFillRate" /\ answer # None) =>
        LET count == Cardinality(CountedPairs)
            rate == answer[1]
        IN  /\ rate[1] >= 0
            /\ rate[2] > 0
            /\ IF count = 0 THEN rate = RZero
               ELSE IF count % 2 = 1
               THEN LET m == KthSlope((count + 1) \div 2)
                    IN  rate[1] * ProbeMinutes(m) = ProbeRise(m) * rate[2]
               ELSE LET a == KthSlope(count \div 2)
                        b == KthSlope(count \div 2 + 1)
                    IN  2 * rate[1] * ProbeMinutes(a) * ProbeMinutes(b)
                            = (ProbeRise(a) * ProbeMinutes(b) + ProbeRise(b) * ProbeMinutes(a))
                              * rate[2]

\* the slopes 1, 1, 1, 100 give 1
C18_Witness ==
    /\ probe.fn = "calculateFillRate"
    /\ Len(probe.historicalData) = 5
    /\ \A i \in 2..5 : ProbeMinutes(i) = 1
    /\ \A i \in 2..4 : ProbeRise(i) = 1
    /\ ProbeRise(5) = 100
    /\ answer = Some(<<1, 1>>)

(* C19: a production_stop alert is emitted for a vessel on a tick if and   *)
(* only if the level rate of the vessel has been below 0.1 per minute on   *)
(* every tick of an interval longer than 30 minutes that ends at this tick *)
(* and the baseline fill rate of the vessel is positive.                   *)
FlatLongerThan(id, minutes) ==
    Has(log.flatSince, id) /\ now - log.flatSince[id] > minutes

C19_ProductionStopIffFlat ==
    Called =>
        \A id \in ValidIds :
            (AlertsOf("production_stop", id) # {})
                <=> (FlatLongerThan(id, PRODUCTION_STOP_DURATION) /\ BaselineOf(id)[1] > 0)

(* C20: the baseline fill rate of a vessel is sticky.  A call that finds a *)
(* baseline of the vessel in the state it is given leaves it as it is;     *)
(* a call that finds none stores the fill-rate estimate of this tick if    *)
(* that estimate is strictly positive and stores nothing otherwise.  So    *)
(* the stored value is the first strictly positive estimate, and a zero    *)
(* estimate is never stored.                                                *)
C20_BaselineSticky ==
    Called =>
        \A id \in ValidIds :
            IF Has(priorState.baselineFillRates, id)
            THEN /\ Has(state.baselineFillRates, id)
                 /\ state.baselineFillRates[id] = priorState.baselineFillRates[id]
            ELSE IF state.fillRates[id][1] > 0
            THEN /\ Has(state.baselineFillRates, id)
                 /\ state.baselineFillRates[id] = state.fillRates[id]
            ELSE ~Has(state.baselineFillRates, id)

\* a tick whose estimate is positive and differs from the stored baseline
C20_Witness ==
    /\ Called
    /\ \E id \in ValidIds :
          /\ Has(priorState.baselineFillRates, id)
          /\ state.fillRates[id][1] > 0
          /\ state.fillRates[id] # state.baselineFillRates[id]

(* C21: acknowledgement is idempotent: acknowledgeAlert(acknowledgeAlert(s, *)
(* x), x) = acknowledgeAlert(s, x) in every field; acknowledgeAlert changes *)
(* no field other than acknowledgedAlerts, to which it adds x; and no call  *)
(* of monitorRealTime removes an id from acknowledgedAlerts.  Checked for   *)
(* every reachable state s and every id x of an alert of the latest tick    *)
(* or of the acknowledged set.                                              *)
KnownAlertIds == { alerts[i].id : i \in 1..Len(alerts) } \cup state.acknowledgedAlerts

OtherFields == DOMAIN initializeMonitoringState \ {"acknowledgedAlerts"}

C21_AcknowledgeIdempotent ==
    /\ \A x \in KnownAlertIds :
          /\ acknowledgeAlert(acknowledgeAlert(state, x), x) = acknowledgeAlert(state, x)
          /\ acknowledgeAlert(state, x).acknowledgedAlerts = state.acknowledgedAlerts \cup {x}
          /\ \A f \in OtherFields : acknowledgeAlert(state, x)[f] = state[f]
    /\ priorState.acknowledgedAlerts \subseteq state.acknowledgedAlerts

\* a call of monitorRealTime on a state that holds an acknowledged id
C21_Witness ==
    /\ Called
    /\ priorState.acknowledgedAlerts # {}
    /\ priorState.lastLevels # state.lastLevels

----------------------------------------------------------------------------
(* Calls with missing inputs: monitorRealTime is called with or without the *)
(* optional couriers and network, and with an empty telemetry list.         *)

Supplies == { <<Some(Couriers), Network>>, <<None, Network>>, <<Some(Couriers), None>> }

\* a tick whose call is given the couriers and the network, or lacks one of them
Supplied ==
    /\ Len(telemetry) < MaxSupply
    /\ \E dt \in FineSteps : \E sample \in Samples(now + dt) : \E sup \in Supplies :
          /\ now' = now + dt
          /\ telemetry' = Append(telemetry, sample)
          /\ CallWith(Append(telemetry, sample), now + dt, sup[1], sup[2])
    /\ UNCHANGED <<tickets, probe, answer, realtimeAlerts, prevAlerts>>

\* a call that is given no telemetry at all
NoData ==
    /\ CallWith(<<>>, now, Some(Couriers), Network)
    /\ UNCHANGED <<now, telemetry, tickets, probe, answer, realtimeAlerts, prevAlerts>>

NextSupply == Supplied \/ NoData

SpecSupply == Init /\ [][NextSupply]_vars

(* C22: with an empty telemetry list monitorRealTime returns no alert and a *)
(* state equal field by field to the prior state; with couriers or network  *)
(* not supplied it emits no delivery_delay alert, while the per-vessel      *)
(* checks and the audit run as they do in a fully supplied call: the state, *)
(* the drain events and all other alerts are those of the supplied call.    *)
NotDelivery(a) == a.type # "delivery_delay"

SameButDelivery(full) ==
    /\ state = full.us
    /\ heap = full.hp
    /\ alerts = SelectSeq(full.alerts, NotDelivery)

SuppliedCall ==
    monitorRealTime(Cauldrons, telemetry, tickets, now, priorState, Some(Couriers),
                    Network, priorHeap, log)

LastCall == log.lastCall[1]

C22_NoDataSkipped ==
    log.lastCall # None =>
        /\ LastCall.samples = 0 =>
              /\ alerts = <<>>
              /\ \A f \in DOMAIN priorState : state[f] = priorState[f]
              /\ heap = priorHeap
        /\ LastCall.samples > 0 /\ ~(LastCall.couriers /\ LastCall.network) =>
              /\ \A i \in 1..Len(alerts) : alerts[i].type # "delivery_delay"
              /\ SameButDelivery(SuppliedCall)

\* a call without couriers that a supplied call would have answered with a
\* delivery_delay alert, and that did emit an audit alert and finalize a drain
C22_Witness ==
    /\ log.lastCall # None
    /\ LastCall.samples > 0
    /\ ~LastCall.couriers
    /\ \E i \in 1..Len(SuppliedCall.alerts) : SuppliedCall.alerts[i].type = "delivery_delay"
    /\ \E i \in 1..Len(alerts) : alerts[i].type = "audit"
    /\ FinalizedNow # {}

----------------------------------------------------------------------------
(* The alert history of the dashboard: the monitoring effect merges the new *)
(* alerts of every call into realtimeAlerts.                                *)

\* seq.slice(-n)
LastN(seq, n) ==
    IF Len(seq) <= n THEN seq ELSE SubSeq(seq, Len(seq) - n + 1, Len(seq))

\* insertion into a list ordered newest first, behind the alerts of the same
\* timestamp (Array.prototype.sort is stable)
InsertNewestFirst(sorted, a) ==
    LET later == { i \in 1..Len(sorted) : sorted[i].timestamp >= a.timestamp }
        k == Cardinality(later)
    IN  SubSeq(sorted, 1, k) \o <<a>> \o SubSeq(sorted, k + 1, Len(sorted))

RECURSIVE SortFrom(_, _, _)
SortFrom(seq, i, sorted) ==
    IF i > Len(seq) THEN sorted
    ELSE SortFrom(seq, i + 1, InsertNewestFirst(sorted, seq[i]))

\* seq.sort((a, b) => b.timestamp.getTime() - a.timestamp.getTime())
SortNewestFirst(seq) == SortFrom(seq, 1, <<>>)

\* a variant that leaves the merged list in arrival order
MergeAlerts_Unsorted(prev, newAlerts) ==
    LastN(prev \o newAlerts, HISTORY_LIMIT)

\* the updater handed to setRealtimeAlerts
MergeAlerts(prev, newAlerts) ==
    SortNewestFirst(LastN(prev \o newAlerts, HISTORY_LIMIT))

\* if (newAlerts.length > 0) setRealtimeAlerts(prev => ...)
Show(newAlerts) ==
    /\ prevAlerts' = realtimeAlerts
    /\ realtimeAlerts' = IF Len(newAlerts) > 0 THEN MergeAlerts(realtimeAlerts, newAlerts)
                         ELSE realtimeAlerts

\* one run of the monitoring effect: the call, the merge, the new state
Effect(r) ==
    /\ Keep(r)
    /\ Show(r.alerts)
    /\ priorState' = state
    /\ priorHeap' = heap

\* the clock advances and the effect runs on the new sample
Shown ==
    /\ Len(telemetry) < MaxShown
    /\ \E dt \in FineSteps : \E sample \in Samples(now + dt) :
          /\ now' = now + dt
          /\ telemetry' = Append(telemetry, sample)
          /\ Effect(monitorRealTime(Cauldrons, Append(telemetry, sample), tickets, now + dt,
                                    state, Some(Couriers), Network, heap, log))
    /\ UNCHANGED <<tickets, probe, answer>>

\* monitoringState is a dependency of the effect: storing the updated state
\* runs the effect again with the same timestamp
Reshown ==
    /\ telemetry # <<>>
    /\ Effect(monitorRealTime(Cauldrons, telemetry, tickets, now, state, Some(Couriers),
                              Network, heap, log))
    /\ UNCHANGED <<now, telemetry, tickets, probe, answer>>

NextHistory == Shown \/ Reshown

SpecHistory == Init /\ [][NextHistory]_vars

(* C23: after any sequence of ticks the alert history holds at most 50      *)
(* alerts and is ordered by alert timestamp, newest first.                  *)
C23_HistoryBoundedNewestFirst ==
    /\ Len(realtimeAlerts) <= 50
    /\ \A i, j \in 1..Len(realtimeAlerts) :
          i < j => realtimeAlerts[i].timestamp >= realtimeAlerts[j].timestamp

\* a full history of alerts of two ticks, merged with the alerts of a call
C23_Witness ==
    /\ Len(prevAlerts) = 50
    /\ Len(alerts) > 0
    /\ realtimeAlerts[1].timestamp > realtimeAlerts[50].timestamp

(* C24: whenever merging the new alerts of a call makes the history exceed  *)
(* 50, the alerts dropped are the oldest ones: every retained alert has a   *)
(* timestamp at least as recent as every dropped alert, and the newly       *)
(* emitted alerts are retained.                                             *)
Count(seq, a) == Cardinality({ i \in 1..Len(seq) : seq[i] = a })

Merged == prevAlerts \o alerts

\* the alerts of the merged list that the history holds fewer times
Dropped == { Merged[i] : i \in { k \in 1..Len(Merged) :
                                  Count(Merged, Merged[k]) > Count(realtimeAlerts, Merged[k]) } }

C24_OldestDropped ==
    (Len(alerts) > 0 /\ Len(Merged) > 50) =>
        /\ \A i \in 1..Len(realtimeAlerts) : \A d \in Dropped :
              realtimeAlerts[i].timestamp >= d.timestamp
        /\ \A i \in 1..Len(alerts) :
              Count(realtimeAlerts, alerts[i]) >= Count(alerts, alerts[i])

----------------------------------------------------------------------------
(* Playback: the dashboard loads the whole data set first and then hands    *)
(* all of it to every call, together with the timestamp of the playback     *)
(* position, so a call sees samples later than its timestamp.               *)

\* the data sets of n samples that follow time t
RECURSIVE LoadedFrom(_, _)
LoadedFrom(t, n) ==
    IF n = 0 THEN { <<>> }
    ELSE UNION { { <<sample>> \o rest : sample \in Samples(t + dt),
                                        rest \in LoadedFrom(t + dt, n - 1) }
                 : dt \in FineSteps }

InitPlayback ==
    /\ now = StartTime
    /\ telemetry \in LoadedFrom(StartTime, MaxLoaded)
    /\ tickets \in TicketLists
    /\ state = initializeMonitoringState
    /\ heap = <<>>
    /\ alerts = <<>>
    /\ priorState = initializeMonitoringState
    /\ priorHeap = <<>>
    /\ log = EmptyLog
    /\ probe = None
    /\ answer = None
    /\ realtimeAlerts = <<>>
    /\ prevAlerts = <<>>

\* the playback position moves to the next sample and the tick is processed
Play ==
    /\ \E k \in 1..Len(telemetry) :
          /\ telemetry[k].timestamp > now
          /\ \A j \in 1..(k - 1) : telemetry[j].timestamp <= now
          /\ now' = telemetry[k].timestamp
          /\ Call(telemetry, telemetry[k].timestamp)
    /\ UNCHANGED <<telemetry, tickets, probe, answer, realtimeAlerts, prevAlerts>>

NextPlayback == Play

SpecPlayback == InitPlayback /\ [][NextPlayback]_vars

(* C25: the fill rate a tick stores is computed from the samples up to the  *)
(* tick timestamp: a telemetry list and the list without its samples later  *)
(* than the tick give the same stored fill rate, baseline and expected      *)
(* drain volumes for that tick.                                             *)
UpToNow(sample) == sample.timestamp <= now

PastCall ==
    monitorRealTime(Cauldrons, SelectSeq(telemetry, UpToNow), tickets, now, priorState,
                    Some(Couriers), Network, priorHeap, log)

SameEstimates(past) ==
    /\ state.fillRates = past.us.fillRates
    /\ state.baselineFillRates = past.us.baselineFillRates
    /\ Len(heap) = Len(past.hp)
    /\ \A r \in 1..Len(heap) : heap[r].expectedDrainVolume = past.hp[r].expectedDrainVolume

C25_FillRateFromPastSamples ==
    log.lastCall # None => SameEstimates(PastCall)

----------------------------------------------------------------------------
(* Drain events *)

\* the events listed in drainEvents, and the events stored in activeDrains
DrainEventRefs(s) == { s.drainEvents[i] : i \in 1..Len(s.drainEvents) }

ActiveRefs(s) == { s.activeDrains[id] : id \in DOMAIN s.activeDrains }

(* C26: a finalized drain event is read-only: once a tick has set isActive  *)
(* to false and removed the event from activeDrains, a later tick changes   *)
(* none of its fields, never makes it active again, and leaves it in        *)
(* drainEvents.                                                             *)
C26_FinalizedReadOnly ==
    \A r \in 1..Len(priorHeap) :
        ~priorHeap[r].isActive =>
            /\ heap[r] = priorHeap[r]
            /\ r \in DrainEventRefs(state)
            /\ r \notin ActiveRefs(state)

\* a tick that starts a new drain of a vessel that has a finalized drain
C26_Witness ==
    \E r \in 1..Len(priorHeap) :
        /\ ~priorHeap[r].isActive
        /\ Len(heap) > Len(priorHeap)
        /\ heap[Len(heap)].cauldronId = heap[r].cauldronId

(* C27: every drain event, while it is active and when it is finalized, has *)
(* levelAfter < levelBefore and an expectedDrainVolume that is not          *)
(* negative, also when the level rises above levelBefore between two drop   *)
(* ticks of the drain.                                                      *)
C27_DrainLevelsDescend ==
    \A r \in 1..Len(heap) :
        /\ heap[r].levelAfter < heap[r].levelBefore
        /\ RLe(RZero, heap[r].expectedDrainVolume)

(* C28: after every tick, at most one event of a vessel in drainEvents is   *)
(* active, and it is the event stored in activeDrains for the vessel; every *)
(* event stored in activeDrains is in drainEvents and active; a vessel      *)
(* without an activeDrains entry has no active event.                       *)
ActiveEventsOf(id) ==
    { r \in DrainEventRefs(state) : heap[r].cauldronId = id /\ heap[r].isActive }

DrainVessels == DOMAIN state.activeDrains \cup { heap[r].cauldronId : r \in 1..Len(heap) }

C28_OneActiveDrainPerVessel ==
    /\ \A id \in DrainVessels :
          IF Has(state.activeDrains, id)
          THEN ActiveEventsOf(id) = { state.activeDrains[id] }
          ELSE ActiveEventsOf(id) = {}
    /\ \A i, j \in 1..Len(state.drainEvents) :
          i # j => state.drainEvents[i] # state.drainEvents[j]
    /\ DrainEventRefs(state) = 1..Len(heap)

\* a vessel with an active drain, a finalized drain, and a further drop tick
C28_Witness ==
    \E id \in DOMAIN state.activeDrains :
        /\ \E r \in DrainEventRefs(state) : heap[r].cauldronId = id /\ ~heap[r].isActive
        /\ heap[state.activeDrains[id]].duration > 1

(* C29: after every tick, every vessel in criticalLevelAlerts has a last    *)
(* observed level above 80% of its max_volume: the flag is set only on a    *)
(* tick that leaves the level above 80% and is cleared on the tick the      *)
(* level falls to or below 80%; so on the tick of an upward crossing the    *)
(* flag is not already set.                                                 *)
C29_FlaggedAboveThreshold ==
    /\ \A id \in state.criticalLevelAlerts :
          /\ Has(state.lastLevels, id)
          /\ 100 * state.lastLevels[id] > 80 * MaxVolume(id)
    /\ Called =>
          \A id \in ValidIds : UpwardCrossing(id) => id \notin priorState.criticalLevelAlerts

\* the tick on which the level of a flagged vessel falls to or below 80%
C29_Witness ==
    /\ Called
    /\ \E id \in priorState.criticalLevelAlerts :
          /\ id \notin state.criticalLevelAlerts
          /\ 100 * state.lastLevels[id] <= 80 * MaxVolume(id)

----------------------------------------------------------------------------
(* Fair runs: the playback timer keeps issuing ticks, each with a later     *)
(* timestamp and a level of the bounded range, until the run ends.          *)

LiveSteps == {3, 5}

Live == AdvanceWith(MaxLive, LiveSteps, Levels)

NextLive == Live

\* the timer of the playback: while ticks remain, the clock moves on
Timer ==
    /\ Len(telemetry) < MaxLive
    /\ \E dt \in LiveSteps : now' = now + dt

\* every Live step is a Timer step, and Timer is enabled exactly when Live is:
\* fairness of the timer is fairness of the ticks
SpecLive == Init /\ [][NextLive]_vars /\ WF_now(Timer)

\* ticks within which an active drain is closed: two ticks of LiveSteps take
\* the clock past the stabilization time, and the levels of the range allow
\* Cardinality(Levels) - 1 drop ticks in a row
Patience == 2 + (Cardinality(Levels) - 1)

ActiveDrain(r) == r <= Len(heap) /\ heap[r].isActive

Closed(r) ==
    /\ r <= Len(heap)
    /\ ~heap[r].isActive
    /\ r \notin ActiveRefs(state)
    /\ Has(log.dailyAdds, r)
    /\ log.dailyAdds[r] = 1

(* C30: if ticks keep being issued with strictly increasing timestamps and  *)
(* levels of a bounded range, every drain that becomes active is eventually *)
(* finalized (isActive = false, removed from activeDrains, its expected     *)
(* volume added to the daily total exactly once).  In a run of MaxLive      *)
(* ticks this is stated for the drains that are active while Patience ticks *)
(* are still to come; the volume of no drain is ever added twice.           *)
C30_DrainEventuallyFinalized ==
    /\ \A r \in 1..(MaxLive - Patience) :
          (ActiveDrain(r) /\ Len(telemetry) <= MaxLive - Patience) ~> Closed(r)
    /\ [](\A r \in DOMAIN log.dailyAdds : log.dailyAdds[r] = 1 /\ ~heap[r].isActive)

\* a drain that was continued twice, after a rise of the level, is closed
C30_Witness ==
    \E r \in 1..Len(heap) :
        /\ Closed(r)
        /\ heap[r].duration >= 3
        /\ log.finalizedAt[r] = now

====
